---- MODULE Spec2Model ----
(***************************************************************************)
(* flask-apify: the content-negotiation and response-finalization pipeline *)
(* of flaskext/apify/fy.py.                                                *)
(*                                                                         *)
(* State: the class-level serializer registry, the application config,     *)
(* app.extensions['apify'], each Apify instance's preprocessor list,       *)
(* finalizer list and blueprint, the application's url map, and the one    *)
(* request being served (the server is synchronous and single-threaded):   *)
(* its position in catch_errors.wrapper, flask.g, the value being passed   *)
(* through apply_all, the pending exception and the response.              *)
(***************************************************************************)
EXTENDS Integers, Sequences, FiniteSets, TLC

VARIABLES
    serializers,        \* Apify.serializers: mimetype -> serializer function
    config_default,     \* app.config['APIFY_DEFAULT_MIMETYPE']
    extensions,         \* app.extensions['apify']: the instance _apify resolves to
    preprocessor_funcs, \* instance -> self.preprocessor_funcs
    finalizer_funcs,    \* instance -> self.finalizer_funcs
    blueprint,          \* instance -> rules added to self.blueprint
    url_map,            \* rules the application serves
    ctor_given,         \* history: times preprocess_api_response was handed to
                        \* __init__ or preprocessor, per instance
    registered,         \* history: the function last handed to serializer(), per mimetype
    registered_by,      \* history: the same, per instance whose serializer() was called
    pc,                 \* position of the request in catch_errors.wrapper
    request,            \* the request being served: accept header and matched view function
    g,                  \* flask.g: api_mimetype, api_serializer
    idx,                \* apply_all: index of the next function of the list
    depth,              \* catch_errors.wrapper frames on the call stack
    arg,                \* apply_all: the value passed from function to function
    raw,                \* the value handed to send_api_response
    res,                \* the response object
    exc,                \* the exception being raised
    log                 \* calls made while serving the request, in order

cfgvars == <<serializers, config_default, extensions, preprocessor_funcs,
             finalizer_funcs, blueprint, url_map, ctor_given, registered,
             registered_by>>
reqvars == <<pc, request, g, idx, depth, arg, raw, res, exc, log>>
vars == <<serializers, config_default, extensions, preprocessor_funcs,
          finalizer_funcs, blueprint, url_map, ctor_given, registered,
          registered_by, pc, request, g, idx, depth, arg, raw, res, exc, log>>

----------------------------------------------------------------------------
(* Bounds *)

\* user preprocessors one instance holds besides the built-in first one
MaxPre == 1
\* finalizers one instance holds
MaxFin == 2

----------------------------------------------------------------------------
(* Values *)

None == "None"

Insts == {1, 2}
\* the instance the application of the tests is built with
Primary == 1

Rules == {"/ping", "/ping/<int:value>"}
Views == {"ping"}

BuiltinMimes == {"text/html", "application/json", "application/javascript"}
Mimes == BuiltinMimes \cup {"application/xml", "nosuch/mimetype"}
\* mimetypes and functions handed to Apify.serializer
RegMimes == {"application/xml", "application/json"}
RegSerializers == {"to_xml", "to_json"}
DefaultMimes == {"application/json", "application/xml"}

\* request.accept_mimetypes, best first; <<>> is a request without accept header
AcceptHeaders ==
    { <<>>, <<"application/json">>, <<"text/html">>, <<"application/xml">>,
      <<"nosuch/mimetype">>, <<"nosuch/mimetype", "application/json">> }

UserPreprocessors == {"login_required"}
UserFinalizers == {"set_custom_header", "fn"}

\* what a user hook or a view does when called
HookOutcomes == {"return", "raise_api", "raise_other"}
ViewOutcomes == {"bare", "with_code", "with_headers", "raise_api", "raise_other"}

----------------------------------------------------------------------------
(* Exceptions: exc.py and the exceptions of the tests *)

ApiErrorFamily ==
    {"ApiError", "ApiNotFound", "ApiUnauthorized", "ApiNotAcceptable",
     "ApiNotImplemented", "ImATeapot"}

\* the classes an except clause naming class c catches
Subclasses(c) ==
    CASE c = "ApiError" -> ApiErrorFamily
      [] c = "Exception" -> ApiErrorFamily \cup {"RuntimeError", "ValueError", "AttributeError"}
      [] OTHER -> {c}

IsInstance(e, classes) == \E c \in classes : e.cls \in Subclasses(c)

\* HTTPException.name: the reason phrase of the status code
StatusName(code) ==
    CASE code = 401 -> "Unauthorized"
      [] code = 404 -> "Not Found"
      [] code = 406 -> "Not Acceptable"
      [] code = 418 -> "I'm a teapot"
      [] code = 501 -> "Not Implemented"
      [] OTHER -> "Unknown Error"

MkError(cls, code, description) ==
    [cls |-> cls, code |-> code, name |-> StatusName(code), description |-> description]

ApiNotFound == MkError("ApiNotFound", 404, "The requested resource was not found on the server.")
ApiUnauthorized == MkError("ApiUnauthorized", 401, "The server could not verify that you are authorized.")
ApiNotAcceptable == MkError("ApiNotAcceptable", 406, "The application API cannot generate response in format accepted by client.")
ApiNotImplemented == MkError("ApiNotImplemented", 501, "The API does not support the action requested by the client.")
\* the caller-defined subtype of the tests
ImATeapot(description) == MkError("ImATeapot", 418, description)
\* exceptions outside the ApiError family
RuntimeError == MkError("RuntimeError", 0, "default mimetype has no serializer")
ValueError == MkError("ValueError", 0, "invalid value")
AttributeError == MkError("AttributeError", 0, "no such attribute")

NoExc == MkError(None, 0, None)

----------------------------------------------------------------------------
(* Function objects, serializers, responses *)

\* a view function as written by the caller
RawView(v) == [view |-> v, layers |-> 0, is_api_method |-> FALSE]

\* serializer fn applied to a payload: the body it produces
Serialize(fn, payload) == <<fn, payload>>

\* the payload the views of the tests return
Payload == [status |-> "api call done"]

\* what the view hands back: a bare payload, (payload, code), (payload, code, headers)
ViewReturn(o) ==
    CASE o = "bare" -> <<Payload>>
      [] o = "with_code" -> <<Payload, 201>>
      [] o = "with_headers" -> <<Payload, 202, {"X-View"}>>

NoResponse == [data |-> <<None, None>>, mimetype |-> None, status_code |-> 0, headers |-> {}]
GUnset == [api_mimetype |-> None, api_serializer |-> None]
NoRequest == [accept |-> <<>>, rule |-> None, view_func |-> RawView(None)]

\* utils.unpack_response: normalise to (payload, status code, headers)
unpack_response(r) ==
    <<r[1], IF Len(r) >= 2 THEN r[2] ELSE 200, IF Len(r) >= 3 THEN r[3] ELSE {}>>

\* serializers.get_serializer: (mimetype, fn) of the registry, or ApiNotAcceptable
get_serializer(registry, mimetype) ==
    IF mimetype \in DOMAIN registry
    THEN [exc |-> NoExc, mimetype |-> mimetype, serializer |-> registry[mimetype]]
    ELSE [exc |-> ApiNotAcceptable, mimetype |-> None, serializer |-> None]

\* serializers.get_default_serializer: the configured default's pair, or RuntimeError
get_default_serializer(registry, default) ==
    LET r == get_serializer(registry, default)
    IN  IF r.exc = NoExc THEN r
        ELSE [exc |-> RuntimeError, mimetype |-> None, serializer |-> None]

\* request.accept_mimetypes.best
guess_best_mimetype(accept) == IF accept = <<>> THEN None ELSE accept[1]

\* faulty variant: the fallback to the default serializer satisfies the request
preprocess_api_response_noraise(registry, default, accept, g0) ==
    LET r == get_serializer(registry, guess_best_mimetype(accept))
        d == get_default_serializer(registry, default)
    IN  IF r.exc = NoExc
        THEN [g |-> [api_mimetype |-> r.mimetype, api_serializer |-> r.serializer],
              exc |-> NoExc]
        ELSE IF d.exc = NoExc
        THEN [g |-> [api_mimetype |-> d.mimetype, api_serializer |-> d.serializer],
              exc |-> NoExc]
        ELSE [g |-> g0, exc |-> d.exc]

\* faulty variant: a failing default lookup is swallowed and ApiNotAcceptable raised
preprocess_api_response_swallow(registry, default, accept, g0) ==
    LET r == get_serializer(registry, guess_best_mimetype(accept))
        d == get_default_serializer(registry, default)
    IN  IF r.exc = NoExc
        THEN [g |-> [api_mimetype |-> r.mimetype, api_serializer |-> r.serializer],
              exc |-> NoExc]
        ELSE IF d.exc = NoExc
        THEN [g |-> [api_mimetype |-> d.mimetype, api_serializer |-> d.serializer],
              exc |-> r.exc]
        ELSE [g |-> g0, exc |-> r.exc]

\* faulty variant: ApiNotAcceptable is raised before the default pair is stored
preprocess_api_response_nofallback(registry, default, accept, g0) ==
    LET r == get_serializer(registry, guess_best_mimetype(accept))
        d == get_default_serializer(registry, default)
    IN  IF r.exc = NoExc
        THEN [g |-> [api_mimetype |-> r.mimetype, api_serializer |-> r.serializer],
              exc |-> NoExc]
        ELSE IF d.exc = NoExc
        THEN [g |-> g0, exc |-> r.exc]
        ELSE [g |-> g0, exc |-> d.exc]

\* faulty variant: the default pair is stored whatever the request accepts
preprocess_api_response_ignore_accept(registry, default, accept, g0) ==
    LET d == get_default_serializer(registry, default)
    IN  IF d.exc = NoExc
        THEN [g |-> [api_mimetype |-> d.mimetype, api_serializer |-> d.serializer],
              exc |-> NoExc]
        ELSE [g |-> g0, exc |-> d.exc]

\* the body of preprocess_api_response: flask.g afterwards, and what it raises
preprocess_api_response(registry, default, accept, g0) ==
    LET r == get_serializer(registry, guess_best_mimetype(accept))
        d == get_default_serializer(registry, default)
    IN  IF r.exc = NoExc
        THEN [g |-> [api_mimetype |-> r.mimetype, api_serializer |-> r.serializer],
              exc |-> NoExc]
        ELSE IF d.exc = NoExc
        THEN [g |-> [api_mimetype |-> d.mimetype, api_serializer |-> d.serializer],
              exc |-> r.exc]
        ELSE [g |-> g0, exc |-> d.exc]

\* faulty variant: the response is built without mimetype=g.api_mimetype
send_api_response_html(r, gg) ==
    LET u == unpack_response(r)
    IN  [data |-> Serialize(gg.api_serializer, u[1]), mimetype |-> "text/html",
         status_code |-> u[2], headers |-> u[3]]

\* send_api_response: the response object built from raw with flask.g
send_api_response(r, gg) ==
    LET u == unpack_response(r)
    IN  [data |-> Serialize(gg.api_serializer, u[1]), mimetype |-> gg.api_mimetype,
         status_code |-> u[2], headers |-> u[3]]

\* faulty variant: the error envelope is sent without exc.code
send_api_error_no_code(e, gg) ==
    send_api_response(<<[error |-> e.name, message |-> e.description]>>, gg)

\* faulty variant: the finalizers are applied to the error envelope as well
send_api_error_finalized(e, gg) ==
    [data |-> Serialize(gg.api_serializer, [error |-> e.name, message |-> e.description]),
     mimetype |-> gg.api_mimetype,
     status_code |-> e.code,
     headers |-> {finalizer_funcs[extensions][k] : k \in DOMAIN finalizer_funcs[extensions]}]

\* send_api_error: the error envelope of exception e
send_api_error(e, gg) ==
    send_api_response(<<[error |-> e.name, message |-> e.description], e.code>>, gg)

\* faulty variant: route hands Exception to catch_errors
CatchAll == {"Exception"}

\* the errors route hands to catch_errors
CatchSet == {"ApiError"}

\* faulty variant: the loop runs over the list backwards
apply_all_reversed(funcs, i) == funcs[Len(funcs) + 1 - i]

\* apply_all: the function applied at iteration i of the loop over funcs
apply_all_func(funcs, i) == funcs[i]

\* apply_all: the argument of the next function, out being the last one's result
apply_all_arg(prev, out) == out

\* faulty variant: the marker is not looked at
route_wrapper_always(fn) ==
    [view |-> fn.view, layers |-> fn.layers + 1, is_api_method |-> TRUE]

\* Apify.route.wrapper: the function registered for fn
route_wrapper(fn) ==
    IF ~fn.is_api_method
    THEN [view |-> fn.view, layers |-> fn.layers + 1, is_api_method |-> TRUE]
    ELSE fn

\* faulty variant: self.serializers.setdefault(mimetype, fn)
serializer_wrapper_setdefault(registry, mimetype, fn) ==
    [m \in DOMAIN registry \cup {mimetype} |->
        IF m \in DOMAIN registry THEN registry[m] ELSE fn]

\* Apify.serializer.wrapper: the registry after self.serializers[mimetype] = fn
serializer_wrapper(registry, mimetype, fn) ==
    [m \in DOMAIN registry \cup {mimetype} |-> IF m = mimetype THEN fn ELSE registry[m]]

\* faulty variant: chain(preprocessor_funcs or (), (preprocess_api_response,))
init_preprocessor_funcs_last(given) == given \o <<"preprocess_api_response">>

\* Apify.serializer.wrapper: return fn
serializer_return(mimetype, fn) == fn

\* Apify.preprocessor: the list after self.preprocessor_funcs.append(fn)
preprocessor_append(funcs, fn) == Append(funcs, fn)

\* Apify.preprocessor: return fn
preprocessor_return(fn) == fn

\* faulty variant: self.finalizer_funcs.insert(0, fn)
finalizer_insert(funcs, fn) == <<fn>> \o funcs

\* Apify.finalizer: the list after self.finalizer_funcs.append(fn)
finalizer_append(funcs, fn) == Append(funcs, fn)

\* Apify.finalizer: return fn
finalizer_return(fn) == fn

\* Apify.__init__: the preprocessor list built from the constructor argument
init_preprocessor_funcs(given) == <<"preprocess_api_response">> \o given

\* Apify.__init__: the finalizer list built from the constructor argument
init_finalizer_funcs(given) == given

----------------------------------------------------------------------------
(* Initial state: the class body of Apify has run, the application is       *)
(* configured, and the instances are constructed.  Primary is constructed   *)
(* with the application (Apify(app, ...)); the other instance without.      *)

\* lists a caller may hand to the constructor
CtorPreprocessors == {<<>>, <<"login_required">>, <<"preprocess_api_response">>}
CtorFinalizers == {<<>>, <<"set_custom_header">>}

Count(seq, x) == Cardinality({i \in DOMAIN seq : seq[i] = x})

\* the class attribute Apify.serializers as the class body leaves it
builtin_serializers ==
    [m \in BuiltinMimes |-> IF m = "text/html" THEN "to_debug" ELSE "to_json"]

\* self.serializers: the attribute is found on the class, whatever the instance
serializers_of(i) == serializers

Init ==
    /\ serializers = builtin_serializers
    /\ config_default \in DefaultMimes
    /\ extensions = Primary
    /\ \E given \in CtorPreprocessors :
          /\ preprocessor_funcs =
                [i \in Insts |-> IF i = Primary THEN init_preprocessor_funcs(given)
                                 ELSE init_preprocessor_funcs(<<>>)]
          /\ ctor_given =
                [i \in Insts |-> IF i = Primary
                                 THEN Count(given, "preprocess_api_response") ELSE 0]
    /\ \E given \in CtorFinalizers :
          finalizer_funcs =
                [i \in Insts |-> IF i = Primary THEN init_finalizer_funcs(given)
                                 ELSE init_finalizer_funcs(<<>>)]
    /\ blueprint = [i \in Insts |-> {}]
    /\ url_map = {}
    /\ registered = [m \in Mimes |-> None]
    /\ registered_by = [i \in Insts |-> [m \in Mimes |-> None]]
    /\ pc = "IDLE"
    /\ request = NoRequest
    /\ g = GUnset
    /\ idx = 0
    /\ depth = 0
    /\ arg = <<>>
    /\ raw = <<>>
    /\ res = NoResponse
    /\ exc = NoExc
    /\ log = <<>>

----------------------------------------------------------------------------
(* Registration: the methods of Apify.  The server is single-threaded, so   *)
(* none of them runs while a request is inside the pipeline.                *)

\* function objects a caller can hand to route: a view as written, or what an
\* earlier route call returned
Routable ==
    {RawView(v) : v \in Views} \cup
    {e.view_func : e \in UNION {blueprint[i] : i \in Insts}}

\* faulty variant: route adds the rule to the application as well
Route_publishes(i, rule, fn) ==
    /\ pc = "IDLE"
    /\ blueprint' = [blueprint EXCEPT ![i] =
                        @ \cup {[rule |-> rule, view_func |-> route_wrapper(fn)]}]
    /\ url_map' = url_map \cup {[rule |-> rule, view_func |-> route_wrapper(fn)]}
    /\ UNCHANGED <<serializers, config_default, extensions, preprocessor_funcs,
                   finalizer_funcs, ctor_given, registered, registered_by>>
    /\ UNCHANGED reqvars

\* Apify.route(rule)(fn)
Route(i, rule, fn) ==
    /\ pc = "IDLE"
    /\ blueprint' = [blueprint EXCEPT ![i] =
                        @ \cup {[rule |-> rule, view_func |-> route_wrapper(fn)]}]
    /\ UNCHANGED <<serializers, config_default, extensions, preprocessor_funcs,
                   finalizer_funcs, url_map, ctor_given, registered, registered_by>>
    /\ UNCHANGED reqvars

\* Apify.register_routes()
RegisterRoutes(i) ==
    /\ pc = "IDLE"
    /\ url_map' = url_map \cup blueprint[i]
    /\ UNCHANGED <<serializers, config_default, extensions, preprocessor_funcs,
                   finalizer_funcs, blueprint, ctor_given, registered, registered_by>>
    /\ UNCHANGED reqvars

\* Apify.serializer(mimetype)(fn)
RegisterSerializer(i, mimetype, fn) ==
    /\ pc = "IDLE"
    /\ serializers' = serializer_wrapper(serializers, mimetype, fn)
    /\ registered' = [registered EXCEPT ![mimetype] = fn]
    /\ registered_by' = [registered_by EXCEPT ![i][mimetype] = fn]
    /\ UNCHANGED <<config_default, extensions, preprocessor_funcs,
                   finalizer_funcs, blueprint, url_map, ctor_given>>
    /\ UNCHANGED reqvars

\* Apify.preprocessor(fn)
RegisterPreprocessor(i, fn) ==
    /\ pc = "IDLE"
    /\ Len(preprocessor_funcs[i]) < 1 + MaxPre
    /\ preprocessor_funcs' = [preprocessor_funcs EXCEPT ![i] = preprocessor_append(@, fn)]
    /\ ctor_given' = [ctor_given EXCEPT ![i] =
                        IF fn = "preprocess_api_response" THEN @ + 1 ELSE @]
    /\ UNCHANGED <<serializers, config_default, extensions, finalizer_funcs,
                   blueprint, url_map, registered, registered_by>>
    /\ UNCHANGED reqvars

\* Apify.finalizer(fn)
RegisterFinalizer(i, fn) ==
    /\ pc = "IDLE"
    /\ Len(finalizer_funcs[i]) < MaxFin
    /\ finalizer_funcs' = [finalizer_funcs EXCEPT ![i] = finalizer_append(@, fn)]
    /\ UNCHANGED <<serializers, config_default, extensions, preprocessor_funcs,
                   blueprint, url_map, ctor_given, registered, registered_by>>
    /\ UNCHANGED reqvars

\* Apify.init_app(app): the configuration keeps the values it has (setdefault),
\* the instance gets a new blueprint and becomes app.extensions['apify']
InitApp(i) ==
    /\ pc = "IDLE"
    /\ blueprint' = [blueprint EXCEPT ![i] = {}]
    /\ extensions' = i
    /\ UNCHANGED <<serializers, config_default, preprocessor_funcs, finalizer_funcs,
                   url_map, ctor_given, registered, registered_by>>
    /\ UNCHANGED reqvars

----------------------------------------------------------------------------
(* Serving one request: catch_errors.wrapper, step by step.                 *)
(*                                                                          *)
(*   try:                                                                   *)
(*       func = apply_all(_apify.preprocessor_funcs, fn)      PREPROCESS    *)
(*       res = send_api_response(func(args))                  INVOKE,       *)
(*                                                            ENVELOPE      *)
(*       return apply_all(_apify.finalizer_funcs, res)        FINALIZE      *)
(*   except errors as exc:                                                  *)
(*       return send_api_error(exc)                           ERROR         *)
(*                                                                          *)
(* DONE: the wrapper returned a response; RAISED: an exception left it.     *)

\* _apify: LocalProxy(lambda: current_app.extensions['apify'])
_apify == extensions

\* _apify.preprocessor_funcs, read by the wrapper while it serves a request
request_preprocessors == preprocessor_funcs[_apify]

\* faulty variant: the wrapper keeps the list the instance had when it was built
request_finalizers_at_wrap == init_finalizer_funcs(<<>>)

\* _apify.finalizer_funcs, read by the wrapper while it serves a request
request_finalizers == finalizer_funcs[_apify]

\* faulty variant: the finalizers are applied after the try block
Handler_finalize_outside(e) ==
    IF pc # "FINALIZE" /\ IsInstance(e, CatchSet) THEN "ERROR" ELSE "RAISED"

\* faulty variant: an error of a preprocessor is swallowed and the view called
Handler_continue(e) ==
    IF pc = "PREPROCESS" THEN "INVOKE"
    ELSE IF IsInstance(e, CatchSet) THEN "ERROR" ELSE "RAISED"

\* the except clause of the wrapper: where an exception raised inside try goes
Handler(e) == IF IsInstance(e, CatchSet) THEN "ERROR" ELSE "RAISED"

\* what the hooks and the view of the tests raise
HookError(fn, o) ==
    IF o = "raise_other" THEN ValueError
    ELSE IF fn = "login_required" THEN ApiUnauthorized
    ELSE IF fn = "ping" THEN ImATeapot("This server is a teapot, not a coffee machine")
    ELSE ImATeapot("Server too hot. Try it later.")

\* a user preprocessor decorates the function it is given
Decorate(fn, a) == Append(a, fn)

\* a user finalizer marks the response it is given (set_custom_header)
Finalize(fn, r) == [r EXCEPT !.headers = @ \cup {fn}]

\* faulty variant: send_api_response(func), the decorated function is not called
AfterPreprocess_skip(funcs, i) == IF i > Len(funcs) THEN "ENVELOPE" ELSE "PREPROCESS"

\* where the wrapper goes once apply_all over the preprocessors is at index i
AfterPreprocess(funcs, i) == IF i > Len(funcs) THEN "INVOKE" ELSE "PREPROCESS"

\* the framework matches a request to a served rule and calls its view function
StartRequest(e, accept) ==
    /\ pc = "IDLE"
    /\ e \in url_map
    /\ request' = [accept |-> accept, rule |-> e.rule, view_func |-> e.view_func]
    /\ g' = GUnset
    /\ idx' = 1
    /\ depth' = 1
    /\ arg' = <<>>
    /\ raw' = <<>>
    /\ res' = NoResponse
    /\ exc' = NoExc
    /\ log' = <<>>
    /\ pc' = AfterPreprocess(request_preprocessors, 1)
    /\ UNCHANGED cfgvars

\* one iteration of apply_all(_apify.preprocessor_funcs, fn)
ApplyPreprocessor(o) ==
    /\ pc = "PREPROCESS"
    /\ LET funcs == request_preprocessors
           fn == apply_all_func(funcs, idx)
           r == preprocess_api_response(serializers, config_default, request.accept, g)
           raised == IF fn = "preprocess_api_response" THEN r.exc
                     ELSE IF o = "return" THEN NoExc ELSE HookError(fn, o)
           out == IF fn = "preprocess_api_response" THEN arg ELSE Decorate(fn, arg)
       IN  /\ fn = "preprocess_api_response" => o = "return"
           /\ log' = Append(log, [op |-> "preprocessor", fn |-> fn, arg |-> arg])
           /\ g' = IF fn = "preprocess_api_response" THEN r.g ELSE g
           /\ IF raised = NoExc
              THEN /\ arg' = apply_all_arg(arg, out)
                   /\ idx' = idx + 1
                   /\ pc' = AfterPreprocess(funcs, idx + 1)
                   /\ exc' = exc
              ELSE /\ exc' = raised
                   /\ pc' = Handler(raised)
                   /\ UNCHANGED <<arg, idx>>
    /\ UNCHANGED <<request, depth, raw, res>>
    /\ UNCHANGED cfgvars

\* func(args): the decorated function calls the view function
InvokeView(o) ==
    /\ pc = "INVOKE"
    /\ IF depth < request.view_func.layers
       THEN \* the view function is itself a wrapper: its pipeline starts
            /\ o = "bare"
            /\ depth' = depth + 1
            /\ idx' = 1
            /\ arg' = <<>>
            /\ pc' = AfterPreprocess(request_preprocessors, 1)
            /\ UNCHANGED <<raw, exc, log>>
       ELSE /\ log' = Append(log, [op |-> "view", fn |-> request.view_func.view,
                                   arg |-> arg])
            /\ IF o \in {"raise_api", "raise_other"}
               THEN /\ exc' = HookError(request.view_func.view, o)
                    /\ pc' = Handler(HookError(request.view_func.view, o))
                    /\ raw' = raw
               ELSE /\ raw' = ViewReturn(o)
                    /\ pc' = "ENVELOPE"
                    /\ exc' = exc
            /\ UNCHANGED <<depth, idx, arg>>
    /\ UNCHANGED <<request, g, res>>
    /\ UNCHANGED cfgvars

\* `return r` of the wrapper: to the framework, or to the wrapper that called it
Return(r) ==
    IF depth > 1
    THEN /\ pc' = "ENVELOPE"
         /\ raw' = <<r>>
         /\ depth' = depth - 1
         /\ res' = res
    ELSE /\ pc' = "DONE"
         /\ res' = r
         /\ UNCHANGED <<raw, depth>>

\* res = send_api_response(...)
BuildResponse ==
    /\ pc = "ENVELOPE"
    /\ IF g = GUnset
       THEN /\ exc' = AttributeError
            /\ pc' = Handler(AttributeError)
            /\ UNCHANGED <<res, raw, depth, idx, log>>
       ELSE /\ log' = Append(log, [op |-> "send_api_response", fn |-> g.api_serializer,
                                   arg |-> raw])
            /\ idx' = 1
            /\ exc' = exc
            /\ IF Len(request_finalizers) = 0
               THEN Return(send_api_response(raw, g))
               ELSE /\ res' = send_api_response(raw, g)
                    /\ pc' = "FINALIZE"
                    /\ UNCHANGED <<raw, depth>>
    /\ UNCHANGED <<request, g, arg>>
    /\ UNCHANGED cfgvars

\* one iteration of apply_all(_apify.finalizer_funcs, res)
ApplyFinalizer(o) ==
    /\ pc = "FINALIZE"
    /\ LET funcs == request_finalizers
           fn == apply_all_func(funcs, idx)
           out == apply_all_arg(res, Finalize(fn, res))
       IN  /\ log' = Append(log, [op |-> "finalizer", fn |-> fn, arg |-> res])
           /\ IF o = "return"
              THEN /\ idx' = idx + 1
                   /\ exc' = exc
                   /\ IF idx + 1 > Len(funcs)
                      THEN Return(out)
                      ELSE /\ res' = out
                           /\ pc' = "FINALIZE"
                           /\ UNCHANGED <<raw, depth>>
              ELSE /\ exc' = HookError(fn, o)
                   /\ pc' = Handler(HookError(fn, o))
                   /\ UNCHANGED <<idx, res, raw, depth>>
    /\ UNCHANGED <<request, g, arg>>
    /\ UNCHANGED cfgvars

\* except errors as exc: return send_api_error(exc)
SendApiError ==
    /\ pc = "ERROR"
    /\ IF g = GUnset
       THEN /\ exc' = AttributeError
            /\ pc' = "RAISED"
            /\ UNCHANGED <<res, raw, depth, log>>
       ELSE /\ log' = Append(log, [op |-> "send_api_error", fn |-> g.api_serializer,
                                   arg |-> <<exc.cls>>])
            /\ exc' = exc
            /\ Return(send_api_error(exc, g))
    /\ UNCHANGED <<request, g, idx, arg>>
    /\ UNCHANGED cfgvars

\* what a serializer raises when it cannot render the data it is given
SerializerError == ApiNotImplemented

\* res = send_api_response(...): g.api_serializer(raw) raises inside the try block
BuildResponseRaises ==
    /\ pc = "ENVELOPE"
    /\ g # GUnset
    /\ log' = Append(log, [op |-> "send_api_response", fn |-> g.api_serializer,
                           arg |-> raw])
    /\ exc' = SerializerError
    /\ pc' = Handler(SerializerError)
    /\ UNCHANGED <<request, g, idx, depth, arg, raw, res>>
    /\ UNCHANGED cfgvars

\* return send_api_error(exc): g.api_serializer(...) raises; the call is in the
\* except clause, so the exception leaves this wrapper
SendApiErrorRaises ==
    /\ pc = "ERROR"
    /\ g # GUnset
    /\ log' = Append(log, [op |-> "send_api_error", fn |-> g.api_serializer,
                           arg |-> <<exc.cls>>])
    /\ exc' = SerializerError
    /\ IF depth > 1
       THEN /\ depth' = depth - 1
            /\ pc' = Handler(SerializerError)
       ELSE /\ depth' = depth
            /\ pc' = "RAISED"
    /\ UNCHANGED <<request, g, idx, arg, raw, res>>
    /\ UNCHANGED cfgvars

\* the framework has sent the response, or handled the exception: next request
Finish ==
    /\ pc \in {"DONE", "RAISED"}
    /\ pc' = "IDLE"
    /\ request' = NoRequest
    /\ g' = GUnset
    /\ idx' = 0
    /\ depth' = 0
    /\ arg' = <<>>
    /\ raw' = <<>>
    /\ res' = NoResponse
    /\ exc' = NoExc
    /\ log' = <<>>
    /\ UNCHANGED cfgvars

----------------------------------------------------------------------------
(* The application of the tests: one Apify instance, Primary, registered    *)
(* on the application.                                                      *)

Next ==
    \/ \E rule \in Rules, fn \in Routable : Route(Primary, rule, fn)
    \/ RegisterRoutes(Primary)
    \/ \E m \in RegMimes, fn \in RegSerializers : RegisterSerializer(Primary, m, fn)
    \/ \E fn \in UserPreprocessors \cup {"preprocess_api_response"} :
          RegisterPreprocessor(Primary, fn)
    \/ \E fn \in UserFinalizers : RegisterFinalizer(Primary, fn)
    \/ \E e \in url_map, accept \in AcceptHeaders : StartRequest(e, accept)
    \/ \E o \in HookOutcomes : ApplyPreprocessor(o)
    \/ \E o \in ViewOutcomes : InvokeView(o)
    \/ BuildResponse
    \/ \E o \in HookOutcomes : ApplyFinalizer(o)
    \/ SendApiError
    \/ Finish

Spec == Init /\ [][Next]_vars

----------------------------------------------------------------------------
(* An application with two Apify instances: Primary, which holds the routes, *)
(* and a second one; both register serializers and hooks, and either may be  *)
(* initialised on the application again.                                     *)

InitTwo ==
    /\ Init
    /\ config_default = "application/json"
    /\ preprocessor_funcs[Primary] = init_preprocessor_funcs(<<>>)
    /\ finalizer_funcs[Primary] = init_finalizer_funcs(<<>>)

NextTwo ==
    \/ \E fn \in Routable : Route(Primary, "/ping", fn)
    \/ RegisterRoutes(Primary)
    \/ \E i \in Insts : InitApp(i)
    \/ \E i \in Insts, fn \in RegSerializers : RegisterSerializer(i, "application/xml", fn)
    \/ \E i \in Insts : RegisterPreprocessor(i, "login_required")
    \/ \E i \in Insts : RegisterFinalizer(i, "set_custom_header")
    \/ \E e \in url_map, accept \in {<<"application/json">>, <<"application/xml">>} :
          StartRequest(e, accept)
    \/ \E o \in {"return", "raise_api"} : ApplyPreprocessor(o)
    \/ \E o \in {"bare", "raise_api"} : InvokeView(o)
    \/ BuildResponse
    \/ ApplyFinalizer("return")
    \/ SendApiError
    \/ Finish

SpecTwo == InitTwo /\ [][NextTwo]_vars

----------------------------------------------------------------------------
(* The application of the tests with serializers that may fail: whenever a  *)
(* serializer is called it either renders the data or raises.               *)

NextSer ==
    \/ \E rule \in Rules : Route(Primary, rule, RawView("ping"))
    \/ RegisterRoutes(Primary)
    \/ \E fn \in UserFinalizers : RegisterFinalizer(Primary, fn)
    \/ \E e \in url_map, accept \in AcceptHeaders : StartRequest(e, accept)
    \/ \E o \in HookOutcomes : ApplyPreprocessor(o)
    \/ \E o \in ViewOutcomes : InvokeView(o)
    \/ BuildResponse
    \/ BuildResponseRaises
    \/ \E o \in HookOutcomes : ApplyFinalizer(o)
    \/ SendApiError
    \/ SendApiErrorRaises
    \/ Finish

SpecSer == Init /\ [][NextSer]_vars

----------------------------------------------------------------------------
(* An application that registers its hooks late: the instance is built      *)
(* without hooks, the views are routed and register_routes is called, and   *)
(* only then preprocessors and finalizers are registered.                   *)

InitLate ==
    /\ Init
    /\ preprocessor_funcs[Primary] = init_preprocessor_funcs(<<>>)
    /\ finalizer_funcs[Primary] = init_finalizer_funcs(<<>>)

\* no hook has been registered since the instance was built
NoHookYet ==
    /\ preprocessor_funcs[Primary] = init_preprocessor_funcs(<<>>)
    /\ finalizer_funcs[Primary] = init_finalizer_funcs(<<>>)

NextLate ==
    \/ NoHookYet /\ \E rule \in Rules, fn \in Routable : Route(Primary, rule, fn)
    \/ NoHookYet /\ RegisterRoutes(Primary)
    \/ url_map # {} /\ \E fn \in UserPreprocessors : RegisterPreprocessor(Primary, fn)
    \/ url_map # {} /\ \E fn \in UserFinalizers : RegisterFinalizer(Primary, fn)
    \/ \E e \in url_map, accept \in AcceptHeaders : StartRequest(e, accept)
    \/ \E o \in HookOutcomes : ApplyPreprocessor(o)
    \/ \E o \in ViewOutcomes : InvokeView(o)
    \/ BuildResponse
    \/ \E o \in HookOutcomes : ApplyFinalizer(o)
    \/ SendApiError
    \/ Finish

SpecLate == InitLate /\ [][NextLate]_vars

----------------------------------------------------------------------------
(* Vocabulary of the properties *)

Serving == pc # "IDLE"

\* the mimetype the request asks for first is registered
Acceptable == guess_best_mimetype(request.accept) \in DOMAIN serializers

\* no mimetype of the accept header is registered (or there is no accept header)
NothingAcceptable == \A k \in DOMAIN request.accept : request.accept[k] \notin DOMAIN serializers

DefaultRegistered == config_default \in DOMAIN serializers

Raised == exc # NoExc

\* the calls of the log made with operation op
Calls(op) == SelectSeq(log, LAMBDA c : c.op = op)

\* the error payload of the pending exception
ErrorPayload == [error |-> exc.name, message |-> exc.description]

----------------------------------------------------------------------------
(* C1: for every mimetype M with a registered serializer S, built in or     *)
(* registered later, a request whose accept header names only M, to a view  *)
(* that returns payload p, never fails in negotiation or in the pipeline    *)
(* itself, and, no hook raising, ends in DONE with a response of status     *)
(* 200, content type M and body S(p).                                       *)
C1_NegotiatedResponse ==
    \A m \in DOMAIN serializers :
        (Serving /\ request.accept = <<m>>) =>
            /\ exc.cls \notin {"ApiNotAcceptable", "RuntimeError", "AttributeError"}
            /\ (pc = "DONE" /\ ~Raised /\ raw = <<Payload>>) =>
                  /\ res.status_code = 200
                  /\ res.mimetype = m
                  /\ res.data = <<serializers[m], Payload>>

C1_Witness ==
    /\ pc = "DONE"
    /\ request.accept = <<"application/xml">>
    /\ raw = <<Payload>>
    /\ ~Raised
    /\ res.status_code = 200
    /\ res.mimetype = "application/xml"
    /\ res.data = <<"to_xml", Payload>>

(* C2: a request with no accept header, or whose accept list matches no     *)
(* registered mimetype, never reaches the view and never gets a success     *)
(* response: with the default mimetype's serializer registered, it ends     *)
(* with the 406 error payload serialized by the default mimetype's          *)
(* serializer, with the default mimetype as content type.                   *)
C2_NotAcceptableUsesDefault ==
    (Serving /\ NothingAcceptable /\ DefaultRegistered) =>
        /\ pc \in {"PREPROCESS", "ERROR", "DONE"}
        /\ pc = "PREPROCESS" => (idx = 1 /\ ~Raised)
        /\ Len(Calls("view")) = 0
        /\ pc \in {"ERROR", "DONE"} =>
              /\ exc.cls = "ApiNotAcceptable"
              /\ g = [api_mimetype |-> config_default,
                      api_serializer |-> serializers[config_default]]
        /\ pc = "DONE" =>
              /\ res.status_code = 406
              /\ res.mimetype = config_default
              /\ res.data = <<serializers[config_default],
                              [error |-> "Not Acceptable",
                               message |-> ApiNotAcceptable.description]>>

C2_Witness ==
    /\ pc = "DONE"
    /\ request.accept \in {<<>>, <<"nosuch/mimetype">>}
    /\ config_default = "application/xml"
    /\ res.status_code = 406
    /\ res.mimetype = "application/xml"

(* C3: when a preprocessor or the view raises an error of the ApiError      *)
(* family during a request whose accept header is acceptable, the request   *)
(* ends with a response whose status is the error's code, whose content     *)
(* type is the negotiated mimetype and whose body is the negotiated         *)
(* serializer applied to {error: name, message: description}.               *)
C3_ApiErrorTranslated ==
    LET best == guess_best_mimetype(request.accept)
    IN  (Serving /\ Acceptable /\ Raised /\ exc.cls \in ApiErrorFamily
            /\ Len(Calls("finalizer")) = 0) =>
            /\ pc \in {"ERROR", "DONE"}
            /\ pc = "DONE" =>
                  /\ res.status_code = exc.code
                  /\ res.mimetype = best
                  /\ res.data = <<serializers[best], ErrorPayload>>

C3_Witness ==
    /\ pc = "DONE"
    /\ request.accept = <<"text/html">>
    /\ exc = ApiUnauthorized
    /\ Len(Calls("view")) = 0
    /\ res.status_code = 401
    /\ res.data = <<"to_debug", [error |-> "Unauthorized",
                                 message |-> ApiUnauthorized.description]>>

(* C4: when the view has returned and a finalizer then raises an error of   *)
(* the ApiError family, the response built so far is discarded: the request *)
(* ends with the error's code and the error envelope, without the status,   *)
(* payload or headers of the success response.                              *)
C4_FinalizerErrorReplacesResponse ==
    (Serving /\ Raised /\ exc.cls \in ApiErrorFamily /\ Len(Calls("finalizer")) > 0) =>
        /\ pc \in {"ERROR", "DONE"}
        /\ Len(Calls("view")) = 1
        /\ pc = "DONE" =>
              res = [data |-> <<g.api_serializer, ErrorPayload>>,
                     mimetype |-> g.api_mimetype,
                     status_code |-> exc.code,
                     headers |-> {}]

C4_Witness ==
    /\ pc = "DONE"
    /\ Len(Calls("finalizer")) = 2
    /\ exc = ImATeapot("Server too hot. Try it later.")
    /\ raw = <<Payload, 202, {"X-View"}>>
    /\ res.status_code = 418
    /\ res.headers = {}

(* C5: while a request is served the hooks are called in the order          *)
(* preprocessors (list order), view, send_api_response, finalizers (list    *)
(* order), none more than once per list entry; each hook is handed what the *)
(* one before it returned; and a request that ends without an exception has *)
(* called every entry of both lists exactly once.                           *)
CallOrder ==
    LET pre == preprocessor_funcs[_apify]
        fin == finalizer_funcs[_apify]
    IN  [k \in 1..Len(pre) |-> <<"preprocessor", pre[k]>>]
        \o << <<"view", request.view_func.view>> >>
        \o << <<"send_api_response", g.api_serializer>> >>
        \o [k \in 1..Len(fin) |-> <<"finalizer", fin[k]>>]

\* the calls made so far, the closing send_api_error apart
CallsMade ==
    LET made == SelectSeq(log, LAMBDA c : c.op # "send_api_error")
    IN  [k \in 1..Len(made) |-> <<made[k].op, made[k].fn>>]

IsPrefix(a, b) == Len(a) <= Len(b) /\ \A k \in 1..Len(a) : a[k] = b[k]

\* the user preprocessors among the first n entries of the list
Decorations(n) ==
    SelectSeq(SubSeq(preprocessor_funcs[_apify], 1, n),
              LAMBDA f : f # "preprocess_api_response")

\* the response as built from raw, after the first n finalizers
Finalized(n) ==
    [data |-> <<g.api_serializer, raw[1]>>,
     mimetype |-> g.api_mimetype,
     status_code |-> IF Len(raw) >= 2 THEN raw[2] ELSE 200,
     headers |-> (IF Len(raw) >= 3 THEN raw[3] ELSE {})
                 \cup {finalizer_funcs[_apify][k] : k \in 1..n}]

C5_HooksInListOrder ==
    Serving =>
        /\ IsPrefix(CallsMade, CallOrder)
        /\ \A k \in DOMAIN log :
              /\ log[k].op \in {"preprocessor", "view"} =>
                    log[k].arg = Decorations(IF log[k].op = "view"
                                             THEN Len(preprocessor_funcs[_apify])
                                             ELSE k - 1)
              /\ log[k].op = "finalizer" =>
                    log[k].arg = Finalized(k - Len(preprocessor_funcs[_apify]) - 3)
        /\ (pc = "DONE" /\ ~Raised) =>
              /\ CallsMade = CallOrder
              /\ res = Finalized(Len(finalizer_funcs[_apify]))

C5_Witness ==
    /\ pc = "DONE"
    /\ ~Raised
    /\ preprocessor_funcs[_apify] = <<"preprocess_api_response", "login_required">>
    /\ finalizer_funcs[_apify] = <<"fn", "set_custom_header">>
    /\ Len(log) = 6
    /\ log[3] = [op |-> "view", fn |-> "ping", arg |-> <<"login_required">>]
    /\ log[6].arg.headers = {"fn"}
    /\ res.headers = {"fn", "set_custom_header"}

(* C6: however often route is applied to a view, the function registered    *)
(* is wrapped in the pipeline exactly once, so a request on any of its       *)
(* rules runs one wrapper: each preprocessor, the view and each finalizer    *)
(* at most once, and exactly once when the request ends without exception.   *)
C6_WrappedOnce ==
    /\ \A e \in url_map \cup UNION {blueprint[i] : i \in Insts} :
          e.view_func.layers = 1 /\ e.view_func.is_api_method
    /\ Serving =>
          /\ depth = 1
          /\ Len(Calls("preprocessor")) <= Len(preprocessor_funcs[_apify])
          /\ Len(Calls("view")) <= 1
          /\ Len(Calls("send_api_response")) <= 1
          /\ Len(Calls("finalizer")) <= Len(finalizer_funcs[_apify])
    /\ (pc = "DONE" /\ ~Raised) =>
          /\ Len(Calls("preprocessor")) = Len(preprocessor_funcs[_apify])
          /\ Len(Calls("view")) = 1
          /\ Len(Calls("finalizer")) = Len(finalizer_funcs[_apify])

C6_Witness ==
    /\ {e.rule : e \in url_map} = Rules
    /\ Cardinality({e.view_func : e \in url_map}) = 1
    /\ pc = "DONE"
    /\ ~Raised
    /\ request.rule = "/ping/<int:value>"
    /\ Len(Calls("view")) = 1

(* C7: after any sequence of serializer registrations the registry maps     *)
(* each mimetype to the function of the last registration for it, a         *)
(* built-in entry included, the other entries being the built-in ones; and  *)
(* a later request accepting that mimetype is serialized with that          *)
(* function.                                                                *)
C7_LastRegistrationWins ==
    /\ \A m \in Mimes :
          IF registered[m] # None
          THEN m \in DOMAIN serializers /\ serializers[m] = registered[m]
          ELSE /\ m \in DOMAIN serializers <=> m \in BuiltinMimes
               /\ m \in BuiltinMimes =>
                     serializers[m] = (IF m = "text/html" THEN "to_debug" ELSE "to_json")
    /\ \A m \in Mimes :
          (pc = "DONE" /\ ~Raised /\ request.accept # <<>> /\ request.accept[1] = m
              /\ registered[m] # None) =>
              /\ res.mimetype = m
              /\ res.data[1] = registered[m]

C7_Witness ==
    /\ registered["application/json"] = "to_xml"
    /\ registered["application/xml"] = "to_json"
    /\ config_default = "application/json"
    /\ pc = "DONE"
    /\ ~Raised
    /\ request.accept = <<"application/xml">>
    /\ res.data[1] = "to_json"

(* C8: an exception outside the ApiError family raised by a preprocessor,   *)
(* the view or a finalizer is never translated: it leaves the wrapped view  *)
(* and the wrapper returns no response for the request.                     *)
C8_OtherErrorsPropagate ==
    (Serving /\ Raised /\ exc.cls \notin ApiErrorFamily) =>
        /\ pc = "RAISED"
        /\ Len(Calls("send_api_error")) = 0

C8_Witness ==
    /\ pc = "RAISED"
    /\ exc = ValueError
    /\ Len(Calls("finalizer")) = 1

(* C9: when the configured default mimetype has no registered serializer, a *)
(* request whose negotiation fails is aborted with RuntimeError, not with   *)
(* ApiNotAcceptable: the error is never translated into a 406 or any other  *)
(* response, and flask.g is never filled with a substitute; every response  *)
(* produced under such a configuration is serialized by the registered      *)
(* serializer of the mimetype the request asked for.                        *)
C9_ConfigurationErrorIsFatal ==
    (Serving /\ ~DefaultRegistered) =>
        /\ ~Acceptable =>
              /\ pc \in {"PREPROCESS", "RAISED"}
              /\ pc = "PREPROCESS" => idx = 1
              /\ pc = "RAISED" => exc = RuntimeError
              /\ g = GUnset
              /\ res = NoResponse
              /\ Len(Calls("send_api_error")) = 0
        /\ pc = "DONE" =>
              /\ Acceptable
              /\ res.mimetype = request.accept[1]
              /\ res.data[1] = serializers[request.accept[1]]
              /\ res.status_code # 406

C9_Witness ==
    /\ pc = "RAISED"
    /\ exc = RuntimeError
    /\ config_default = "application/xml"
    /\ request.accept = <<"nosuch/mimetype", "application/json">>
    /\ Len(log) = 1

(* C10 as stated: in every reachable state preprocess_api_response is the   *)
(* first element of every instance's preprocessor list and occurs in it     *)
(* exactly once.                                                            *)
C10_ResolverFirstExactlyOnce ==
    \A i \in Insts :
        /\ Len(preprocessor_funcs[i]) >= 1
        /\ preprocessor_funcs[i][1] = "preprocess_api_response"
        /\ Count(preprocessor_funcs[i], "preprocess_api_response") = 1

(* C10 amended: preprocess_api_response is the first element of every       *)
(* instance's preprocessor list, and it occurs in it once, plus once for    *)
(* every time the caller handed preprocess_api_response itself to the       *)
(* constructor or to preprocessor.                                          *)
C10_ResolverFirst ==
    \A i \in Insts :
        /\ Len(preprocessor_funcs[i]) >= 1
        /\ preprocessor_funcs[i][1] = "preprocess_api_response"
        /\ Count(preprocessor_funcs[i], "preprocess_api_response") = 1 + ctor_given[i]

C10_Witness ==
    /\ preprocessor_funcs[Primary] = <<"preprocess_api_response", "login_required">>
    /\ finalizer_funcs[Primary] # <<>>
    /\ blueprint[Primary] # {}
    /\ registered["application/xml"] # None

----------------------------------------------------------------------------
(* Registration *)

\* the functions handed to the registration methods
RegisteredFns ==
    RegSerializers \cup UserPreprocessors \cup UserFinalizers \cup {"preprocess_api_response"}

\* the route table: the blueprints and the url map
RouteTable == <<blueprint, url_map>>

\* a step that changes the serializer registry, and what it may touch
SerializerStep ==
    serializers' # serializers =>
        /\ \E m \in Mimes, fn \in RegisteredFns :
              /\ DOMAIN serializers' = DOMAIN serializers \cup {m}
              /\ serializers'[m] = fn
              /\ \A x \in DOMAIN serializers \ {m} : serializers'[x] = serializers[x]
        /\ UNCHANGED <<preprocessor_funcs, finalizer_funcs, RouteTable>>

\* a step that changes a preprocessor list, and what it may touch
PreprocessorStep ==
    preprocessor_funcs' # preprocessor_funcs =>
        /\ \E i \in Insts, fn \in RegisteredFns :
              preprocessor_funcs' =
                  [preprocessor_funcs EXCEPT ![i] = preprocessor_funcs[i] \o <<fn>>]
        /\ UNCHANGED <<serializers, finalizer_funcs, RouteTable>>

\* a step that changes a finalizer list, and what it may touch
FinalizerStep ==
    finalizer_funcs' # finalizer_funcs =>
        /\ \E i \in Insts, fn \in RegisteredFns :
              finalizer_funcs' =
                  [finalizer_funcs EXCEPT ![i] = finalizer_funcs[i] \o <<fn>>]
        /\ UNCHANGED <<serializers, preprocessor_funcs, RouteTable>>

ReturnFn ==
    \A fn \in RegisteredFns :
        /\ \A m \in Mimes : serializer_return(m, fn) = fn
        /\ preprocessor_return(fn) = fn
        /\ finalizer_return(fn) = fn

(* C11 as stated: every call of serializer(mimetype)(fn) adds exactly one   *)
(* entry to the serializer registry.                                        *)
C11_SerializerAddsOneEntry ==
    [][registered' # registered =>
          Cardinality(DOMAIN serializers') = Cardinality(DOMAIN serializers) + 1]_vars

(* C11 amended: serializer(mimetype)(fn), preprocessor(fn) and finalizer(fn) *)
(* return fn itself; serializer sets exactly one entry of the registry,      *)
(* adding it or replacing the entry the mimetype had; preprocessor and       *)
(* finalizer append one entry at the end of their list, earlier entries and  *)
(* their order kept; each leaves the other two and the route table           *)
(* unchanged.                                                                *)
C11_RegistrationFrame ==
    [][ReturnFn /\ SerializerStep /\ PreprocessorStep /\ FinalizerStep]_vars

C11_Witness ==
    /\ registered["application/json"] = "to_xml"
    /\ serializers["application/json"] = "to_xml"
    /\ Len(preprocessor_funcs[Primary]) = 2
    /\ finalizer_funcs[Primary] = <<"set_custom_header", "fn">>

\* the registry an instance would hold if it owned it: the built-in entries,
\* overridden by the registrations made through that instance
OwnRegistry(i) ==
    [m \in BuiltinMimes \cup {x \in Mimes : registered_by[i][x] # None} |->
        IF registered_by[i][m] # None THEN registered_by[i][m]
        ELSE builtin_serializers[m]]

(* C12: the serializer registry is owned by one Apify instance: registering *)
(* a serializer through one instance changes only that instance's registry, *)
(* and every other instance still holds exactly the built-in entries plus   *)
(* its own registrations.                                                   *)
C12_RegistryPerInstance ==
    \A i \in Insts : serializers_of(i) = OwnRegistry(i)

----------------------------------------------------------------------------
(* Publication of the routes *)

\* the rule and view function the request was matched to
Matched == [rule |-> request.rule, view_func |-> request.view_func]

(* C13: register_routes publishes exactly the rules route has accumulated   *)
(* before it.  A step that adds a rule to a blueprint leaves the url map as *)
(* it is and raises nothing; the url map changes only by taking in the      *)
(* rules a blueprint holds at that moment; and only rules of the url map    *)
(* are served.  So a rule added by route after the call is not served, for  *)
(* as long as register_routes is not called again.                          *)
C13_PublishedAtRegisterRoutes ==
    /\ [][blueprint' # blueprint => url_map' = url_map /\ pc' = "IDLE"]_vars
    /\ [][url_map' # url_map =>
             /\ \E i \in Insts : url_map' = url_map \cup blueprint[i]
             /\ blueprint' = blueprint]_vars
    /\ [](Serving => Matched \in url_map)

C13_Witness ==
    /\ pc = "DONE"
    /\ Matched.rule = "/ping"
    /\ \E e \in blueprint[Primary] : e.rule = "/ping/<int:value>" /\ e \notin url_map

----------------------------------------------------------------------------
(* The states of the pipeline *)

\* the steps of a pipeline execution that runs to its end, and the ways out of
\* it; with no finalizer registered FINALIZE is passed without a step
PipelineSteps ==
    { <<"IDLE", "PREPROCESS">>, <<"PREPROCESS", "INVOKE">>, <<"INVOKE", "ENVELOPE">>,
      <<"ENVELOPE", "FINALIZE">>, <<"ENVELOPE", "DONE">>, <<"FINALIZE", "DONE">>,
      <<"ERROR", "DONE">>, <<"DONE", "IDLE">>, <<"RAISED", "IDLE">> }
    \cup {<<st, "RAISED">> : st \in {"PREPROCESS", "INVOKE", "ENVELOPE", "FINALIZE", "ERROR"}}

(* C14 as stated: the pipeline moves through PREPROCESS, INVOKE, ENVELOPE,  *)
(* FINALIZE, DONE in this order, and ERROR is entered only from PREPROCESS, *)
(* INVOKE or FINALIZE, never from ENVELOPE.                                 *)
C14_ErrorNotFromEnvelope ==
    [][pc' # pc =>
          <<pc, pc'>> \in PipelineSteps
              \cup {<<st, "ERROR">> : st \in {"PREPROCESS", "INVOKE", "FINALIZE"}}]_vars

(* C14 amended: the pipeline moves through PREPROCESS, INVOKE, ENVELOPE,    *)
(* FINALIZE, DONE in this order, and ERROR is entered only from PREPROCESS, *)
(* INVOKE, ENVELOPE or FINALIZE: a designated error raised while the        *)
(* envelope is built is caught like the others.                             *)
C14_PipelineOrder ==
    [][pc' # pc =>
          <<pc, pc'>> \in PipelineSteps
              \cup {<<st, "ERROR">> :
                      st \in {"PREPROCESS", "INVOKE", "ENVELOPE", "FINALIZE"}}]_vars

C14_Witness ==
    /\ pc = "DONE"
    /\ Len(log) = 4
    /\ log[3].op = "send_api_response"
    /\ log[4].op = "send_api_error"
    /\ res.status_code = 501

----------------------------------------------------------------------------
(* Negotiation and error translation *)

\* the pair the request's accept header and the registry resolve to, the
\* default pair when nothing of the header is registered
Resolved ==
    IF Acceptable
    THEN get_serializer(serializers, guess_best_mimetype(request.accept))
    ELSE get_default_serializer(serializers, config_default)

ResolvedPair == [api_mimetype |-> Resolved.mimetype, api_serializer |-> Resolved.serializer]

\* the calls of preprocess_api_response made so far for the request
Resolutions ==
    SelectSeq(log, LAMBDA c : c.op = "preprocessor" /\ c.fn = "preprocess_api_response")

C16_OneResolutionPerRequest ==
    pc \in {"DONE", "RAISED"} => Len(Resolutions) = 1

(* C16 amended: every request performs at least one mimetype resolution and *)
(* at most one per occurrence of preprocess_api_response in the             *)
(* preprocessor list, so exactly one when the list holds it once; the       *)
(* mimetype and serializer of the response, success or error, are the pair  *)
(* resolved from the request's own accept header and the registry; and a    *)
(* request starts with no pair in flask.g, so that an earlier request's     *)
(* pair is never used.                                                      *)
C16_ResolvedPerRequest ==
    /\ [](pc \in {"DONE", "RAISED"} =>
             /\ Len(Resolutions) >= 1
             /\ Len(Resolutions) <= Count(request_preprocessors, "preprocess_api_response"))
    /\ [](pc = "DONE" =>
             /\ res.mimetype = Resolved.mimetype
             /\ res.data[1] = Resolved.serializer
             /\ g = ResolvedPair)
    /\ [][pc = "IDLE" /\ pc' # "IDLE" => g' = GUnset /\ log' = <<>>]_vars

C16_Witness ==
    /\ pc = "DONE"
    /\ Len(Resolutions) = 2
    /\ request.accept = <<"application/xml">>
    /\ res.mimetype = "application/xml"
    /\ res.data[1] = registered["application/xml"]

----------------------------------------------------------------------------
(* Hooks registered late *)

\* hook fn was called for the request
Called(op, fn) == \E k \in DOMAIN log : log[k].op = op /\ log[k].fn = fn

(* C17: preprocessors and finalizers are looked up when a request is        *)
(* served.  In an application that registers its hooks only after the views *)
(* were routed and register_routes was called, every request that no hook   *)
(* and no view fails has had every registered preprocessor applied to the   *)
(* view and every registered finalizer applied to the response.             *)
C17_LateHooksApplied ==
    (pc = "DONE" /\ ~Raised) =>
        /\ \A k \in DOMAIN preprocessor_funcs[Primary] :
              Called("preprocessor", preprocessor_funcs[Primary][k])
        /\ Calls("view")[1].arg =
              SelectSeq(preprocessor_funcs[Primary],
                        LAMBDA f : f # "preprocess_api_response")
        /\ \A k \in DOMAIN finalizer_funcs[Primary] :
              /\ Called("finalizer", finalizer_funcs[Primary][k])
              /\ finalizer_funcs[Primary][k] \in res.headers

C17_Witness ==
    /\ pc = "DONE"
    /\ ~Raised
    /\ preprocessor_funcs[Primary] = <<"preprocess_api_response", "login_required">>
    /\ finalizer_funcs[Primary] = <<"fn", "set_custom_header">>
    /\ {"fn", "set_custom_header"} \subseteq res.headers

----------------------------------------------------------------------------
(* Short-circuit and the error response *)

\* the calls made for the request, send_api_error apart
Work == SelectSeq(log, LAMBDA c : c.op # "send_api_error")

\* the request failed in a preprocessor: in the negotiation, or in a user hook
FailedInPreprocess ==
    /\ Serving
    /\ Raised
    /\ Len(Work) > 0
    /\ Work[Len(Work)].op = "preprocessor"

(* C18: when the negotiation fails or a preprocessor raises, the pipeline   *)
(* short-circuits: the failing preprocessor is the last hook called for the *)
(* request, which goes to ERROR (or leaves the wrapper) at once; no later   *)
(* preprocessor, not the view, not send_api_response and no finalizer is    *)
(* ever called, and the only call that may follow is send_api_error.        *)
C18_ShortCircuit ==
    /\ [](FailedInPreprocess =>
             /\ pc \in {"ERROR", "DONE", "RAISED"}
             /\ Len(Calls("preprocessor")) = idx
             /\ Len(Calls("preprocessor")) <= Len(request_preprocessors)
             /\ Len(Calls("view")) = 0
             /\ Len(Calls("send_api_response")) = 0
             /\ Len(Calls("finalizer")) = 0
             /\ pc = "DONE" => res.status_code = exc.code)
    /\ [][FailedInPreprocess =>
             \/ log' = <<>>
             \/ log' = Append(log, [op |-> "send_api_error", fn |-> g.api_serializer,
                                    arg |-> <<exc.cls>>])]_vars

C18_Witness ==
    /\ pc = "DONE"
    /\ exc.cls = "ApiNotAcceptable"
    /\ res.status_code = 406
    /\ Len(request_preprocessors) = 2
    /\ Len(request_finalizers) = 2
    /\ Len(log) = 2

(* C19: finalizers are never applied to an error response.  A request that  *)
(* passed through ERROR returns the error envelope as send_api_error built  *)
(* it: send_api_error is the last call of the request, every finalizer call *)
(* precedes it and was given the success response, and nothing the          *)
(* finalizers or the view put into the headers of the success response is   *)
(* in the response returned.                                                *)
C19_ErrorResponseNotFinalized ==
    (pc = "DONE" /\ Raised) =>
        /\ log[Len(log)].op = "send_api_error"
        /\ Len(Calls("send_api_error")) = 1
        /\ \A k \in DOMAIN log :
              log[k].op = "finalizer" =>
                  /\ k < Len(log)
                  /\ log[k].arg.status_code = (IF Len(raw) >= 2 THEN raw[2] ELSE 200)
                  /\ log[k].arg.data = <<g.api_serializer, raw[1]>>
        /\ res.data = <<g.api_serializer, ErrorPayload>>
        /\ res.headers \cap {log[k].fn : k \in DOMAIN log} = {}
        /\ res.headers = {}

C19_Witness ==
    /\ pc = "DONE"
    /\ Raised
    /\ Len(Calls("finalizer")) = 2
    /\ Calls("finalizer")[2].arg.headers = {"X-View", "set_custom_header"}
    /\ res.headers = {}
    /\ res.status_code = 418

----------------------------------------------------------------------------
(* Two instances on one application *)

\* the functions called with operation op for the request, in call order
FnsCalled(op) == [k \in DOMAIN Calls(op) |-> Calls(op)[k].fn]

(* C20: a view wrapped through route of an Apify instance always runs the   *)
(* preprocessor and finalizer lists of that same instance, whichever        *)
(* instance has been initialised on the application before the request:     *)
(* the views are those of Primary, so a request that runs through has       *)
(* called exactly the preprocessors and finalizers of Primary.              *)
C20_OwnHooksRun ==
    (pc = "DONE" /\ ~Raised) =>
        /\ FnsCalled("preprocessor") = preprocessor_funcs[Primary]
        /\ FnsCalled("finalizer") = finalizer_funcs[Primary]

====
